---------------------------- MODULE Spec2Model ----------------------------
(***************************************************************************)
(* The tree-walking evaluator of src/src/evaluator.rs as a state machine.  *)
(*                                                                         *)
(* Evaluator::eval is recursive; the machine makes its recursion explicit: *)
(* `stack` holds one frame per active call of eval (or of one of its       *)
(* helpers eval_expressions / apply_function) with that call's locals and  *)
(* its position, `ret` is the value the callee that just finished handed   *)
(* back, `env` is the field Evaluator.env and `envs` the heap of           *)
(* Rc<RefCell<Enviroment>> cells it points into.  One step of the machine  *)
(* runs one handler from its current position up to its next nested call   *)
(* of eval or to its return.                                               *)
(***************************************************************************)
EXTENDS Integers, Sequences, FiniteSets, TLC

VARIABLES input, stack, ret, env, envs, status

vars == <<input, stack, ret, env, envs, status>>

(***************************************************************************)
(* The records of the model are tagged: a syntax-tree node by `type`, a    *)
(* value by `kind`, a frame by `fn`.  The tag is what tells two records    *)
(* apart, whatever their other fields hold.                                *)
(***************************************************************************)
Tag(r) ==
    CASE "type" \in DOMAIN r -> r.type
      [] "kind" \in DOMAIN r -> r.kind
      [] "fn" \in DOMAIN r -> r.fn

(***************************************************************************)
(* Bounds of the model.                                                    *)
(***************************************************************************)
\* deepest nesting of function applications the modelled host stack holds
MaxDepth == 4
\* deepest nesting of if-blocks around a `return` in the generated programs
MaxNest == 2
\* largest argument of the counting recursion in the generated programs
MaxCount == 2

(***************************************************************************)
(* Syntax tree (crate::ast), with the field names evaluator.rs reads.      *)
(***************************************************************************)
Identifier(value) == [type |-> "Identifier", value |-> value]

IntegerLiteral(value) == [type |-> "IntegerLiteral", value |-> value]

StringLiteral(value) == [type |-> "StringLiteral", value |-> value]

BooleanLiteral(value) == [type |-> "Boolean", value |-> value]

ArrayLiteral(elements) == [type |-> "ArrayLiteral", elements |-> elements]

\* one (key, value) pair of a hash literal
Member(key, value) == [key |-> key, value |-> value]

HashLiteral(members) == [type |-> "HashLiteral", members |-> members]

Index(left, index) == [type |-> "Index", left |-> left, index |-> index]

Prefix(operator, right) ==
    [type |-> "Prefix", operator |-> operator, right |-> right]

Infix(operator, left, right) ==
    [type |-> "Infix", operator |-> operator, left |-> left, right |-> right]

BlockStatement(statements) ==
    [type |-> "BlockStatement", statements |-> statements]

\* alternative is Option<BlockStatement>: <<>> for None, <<block>> for Some
IfExpression(condition, consequence, alternative) ==
    [type |-> "If", condition |-> condition, consequence |-> consequence,
     alternative |-> alternative]

FunctionLiteral(parameters, body) ==
    [type |-> "FunctionLiteral", parameters |-> parameters, body |-> body]

Call(function, arguments) ==
    [type |-> "Call", function |-> function, arguments |-> arguments]

LetStatement(name, value) == [type |-> "Let", name |-> name, value |-> value]

ReturnStatement(return_value) ==
    [type |-> "Return", return_value |-> return_value]

ExpressionStatement(expression) ==
    [type |-> "ExpressionStatement", expression |-> expression]

Program(statements) == [type |-> "Program", statements |-> statements]

(***************************************************************************)
(* Values (crate::object).  kind is what Object::kind() answers.           *)
(***************************************************************************)
Integer(value) == [kind |-> "INTEGER", value |-> value]

Boolean(value) == [kind |-> "BOOLEAN", value |-> value]

Str(value) == [kind |-> "STRING", value |-> value]

Null == [kind |-> "NULL"]

Array(elements) == [kind |-> "ARRAY", elements |-> elements]

\* value: the HashMap<String, Object>, a function from stringified hash keys
Hash(value) == [kind |-> "HASH", value |-> value]

\* env: the handle of the captured Rc<RefCell<Enviroment>>
Function(parameters, body, e) ==
    [kind |-> "FUNCTION", parameters |-> parameters, body |-> body, env |-> e]

BuiltinFunction(name) == [kind |-> "BUILTIN", name |-> name]

ReturnValue(value) == [kind |-> "RETURN_VALUE", value |-> value]

RuntimeError(message) == [kind |-> "ERROR", message |-> message]

kind(object) == object.kind

(***************************************************************************)
(* What is not an Object: the empty return register, the Vec<Object> that  *)
(* eval_expressions returns, and the outcome of an operation that panics.  *)
(***************************************************************************)
NoValue == [kind |-> "<none>"]

Vec(elements) == [kind |-> "<vec>", elements |-> elements]

Panic == [kind |-> "<panic>"]

(***************************************************************************)
(* Decimal rendering of an integer (format!("{}", i64)).                   *)
(***************************************************************************)
Digit(d) == <<"0", "1", "2", "3", "4", "5", "6", "7", "8", "9">>[d + 1]

RECURSIVE NatToString(_)
NatToString(n) ==
    IF n < 10 THEN Digit(n) ELSE NatToString(n \div 10) \o Digit(n % 10)

IntToString(i) == IF i < 0 THEN "-" \o NatToString(-i) ELSE NatToString(i)

(***************************************************************************)
(* Binding contexts (crate::enviroment).  A cell of the heap `envs` is one *)
(* Rc<RefCell<Enviroment>>: its own name -> value map and the handle of    *)
(* its parent (0: none).  A handle is the cell's index in the heap.        *)
(***************************************************************************)
Enviroment(store, outer) == [store |-> store, outer |-> outer]

\* Enviroment::get: the chain is walked outwards; NoValue stands for None
RECURSIVE get(_, _, _)
get(heap, e, name) ==
    IF name \in DOMAIN heap[e].store THEN heap[e].store[name]
    ELSE IF heap[e].outer = 0 THEN NoValue
    ELSE get(heap, heap[e].outer, name)

\* Enviroment::set: writes to the cell itself only
set(store, name, value) ==
    [n \in (DOMAIN store) \cup {name} |-> IF n = name THEN value ELSE store[n]]

(***************************************************************************)
(* Hash keys (crate::object, HashKeyable): hash_key().stringify().         *)
(***************************************************************************)
HashKeyKinds == {"STRING", "INTEGER", "BOOLEAN"}

hash_key(object) ==
    CASE object.kind = "INTEGER" -> "I:" \o IntToString(object.value)
      [] object.kind = "BOOLEAN" ->
            "B:" \o (IF object.value THEN "true" ELSE "false")
      [] object.kind = "STRING" -> "S:" \o object.value

(***************************************************************************)
(* The built-in registry (crate::builtin).  puts answers Null; what it     *)
(* writes to the standard output is outside the model.                     *)
(***************************************************************************)
BuiltinNames == {"len", "first", "last", "rest", "push", "puts"}

function_exists(name) == name \in BuiltinNames

WrongArguments(got, want) ==
    RuntimeError("wrong number of arguments. got=" \o IntToString(got)
                 \o ", want=" \o IntToString(want))

\* the message quotes the name in back quotes, which a TLA+ string cannot
\* hold: they are written as '
NotSupported(name, object) ==
    RuntimeError("argument to '" \o name \o "' not supported, got "
                 \o kind(object))

\* Builtin::try_function: NoValue stands for None
try_function(name, args) ==
    CASE name = "len" ->
            IF Len(args) # 1 THEN WrongArguments(Len(args), 1)
            ELSE IF args[1].kind = "STRING" THEN Integer(Len(args[1].value))
            ELSE IF args[1].kind = "ARRAY" THEN Integer(Len(args[1].elements))
            ELSE NotSupported(name, args[1])
      [] name = "first" ->
            IF Len(args) # 1 THEN WrongArguments(Len(args), 1)
            ELSE IF args[1].kind # "ARRAY" THEN NotSupported(name, args[1])
            ELSE IF Len(args[1].elements) = 0 THEN Null
            ELSE args[1].elements[1]
      [] name = "last" ->
            IF Len(args) # 1 THEN WrongArguments(Len(args), 1)
            ELSE IF args[1].kind # "ARRAY" THEN NotSupported(name, args[1])
            ELSE IF Len(args[1].elements) = 0 THEN Null
            ELSE args[1].elements[Len(args[1].elements)]
      [] name = "rest" ->
            IF Len(args) # 1 THEN WrongArguments(Len(args), 1)
            ELSE IF args[1].kind # "ARRAY" THEN NotSupported(name, args[1])
            ELSE IF Len(args[1].elements) = 0 THEN Null
            ELSE Array(Tail(args[1].elements))
      [] name = "push" ->
            IF Len(args) # 2 THEN WrongArguments(Len(args), 2)
            ELSE IF args[1].kind # "ARRAY" THEN NotSupported(name, args[1])
            ELSE Array(Append(args[1].elements, args[2]))
      [] name = "puts" -> Null
      [] OTHER -> NoValue

(***************************************************************************)
(* The evaluator's functions on values   (src/src/evaluator.rs).             *)
(***************************************************************************)
is_error(object) == object.kind = "ERROR"

is_truthy(object) ==
    CASE object.kind = "NULL" -> FALSE
      [] object.kind = "BOOLEAN" -> object.value
      [] OTHER -> TRUE

native_bool_to_boolean_object(b) == IF b THEN Boolean(TRUE) ELSE Boolean(FALSE)

unwrap_return_value(obj) ==
    IF obj.kind = "RETURN_VALUE" THEN obj.value ELSE obj

eval_index_expression(left, index) ==
    IF left.kind = "ARRAY"
    THEN IF index.kind = "INTEGER"
         THEN IF index.value < 0 \/ Len(left.elements) < index.value + 1
              THEN Null
              ELSE left.elements[index.value + 1]
         ELSE RuntimeError("index is not a integer: " \o kind(index))
    ELSE RuntimeError("index operator not supported: " \o kind(left))

eval_bang_operator_expression(right) ==
    CASE right.kind = "BOOLEAN" ->
            IF right.value THEN Boolean(FALSE) ELSE Boolean(TRUE)
      [] right.kind = "NULL" -> Null
      [] OTHER -> Boolean(FALSE)

eval_minux_operator_expression(right) ==
    IF right.kind = "INTEGER" THEN Integer(-right.value)
    ELSE RuntimeError("unknown operator: -" \o kind(right))

eval_prefix_expression(operator, right) ==
    CASE operator = "!" -> eval_bang_operator_expression(right)
      [] operator = "-" -> eval_minux_operator_expression(right)
      [] OTHER -> RuntimeError("unknown operator: " \o operator \o kind(right))

UnknownOperator(left, operator, right) ==
    RuntimeError("unknown operator: " \o kind(left) \o " " \o operator
                 \o " " \o kind(right))

\* i64 `/`: the quotient rounded towards zero
TruncDiv(a, b) ==
    LET abs(x) == IF x < 0 THEN -x ELSE x
        q == abs(a) \div abs(b)
    IN  IF (a < 0) = (b < 0) THEN q ELSE -q

\* left_value / right_value panics ("attempt to divide by zero") when
\* right_value is 0
eval_integer_infix_expression(operator, left, right) ==
    LET left_value == left.value
        right_value == right.value
    IN  CASE operator = "+" -> Integer(left_value + right_value)
          [] operator = "-" -> Integer(left_value - right_value)
          [] operator = "*" -> Integer(left_value * right_value)
          [] operator = "/" ->
                IF right_value = 0 THEN Panic
                ELSE Integer(TruncDiv(left_value, right_value))
          [] operator = "<" ->
                native_bool_to_boolean_object(left_value < right_value)
          [] operator = ">" ->
                native_bool_to_boolean_object(left_value > right_value)
          [] operator = "==" ->
                native_bool_to_boolean_object(left_value = right_value)
          [] operator = "!=" ->
                native_bool_to_boolean_object(left_value # right_value)
          [] OTHER -> UnknownOperator(left, operator, right)

eval_string_infix_expression(operator, left, right) ==
    IF operator = "+" THEN Str(left.value \o right.value)
    ELSE UnknownOperator(left, operator, right)

\* Object's PartialEq (crate::object): same kind and same payload
ObjectEq(left, right) == left = right

eval_infix_expression(operator, left, right) ==
    IF kind(left) # kind(right)
    THEN RuntimeError("type mismatch: " \o kind(left) \o " " \o operator
                      \o " " \o kind(right))
    ELSE IF left.kind = "INTEGER" /\ right.kind = "INTEGER"
    THEN eval_integer_infix_expression(operator, left, right)
    ELSE IF left.kind = "STRING" /\ right.kind = "STRING"
    THEN eval_string_infix_expression(operator, left, right)
    ELSE CASE operator = "==" ->
                native_bool_to_boolean_object(ObjectEq(left, right))
           [] operator = "!=" ->
                native_bool_to_boolean_object(~ObjectEq(left, right))
           [] OTHER -> UnknownOperator(left, operator, right)

(***************************************************************************)
(* Frames.  A frame is one active call: fn names the handler (the arm of   *)
(* eval's match, or the helper), the other fields are the call's locals    *)
(* under their names in the source, pc its position.                       *)
(***************************************************************************)
\* eval's match on the node (lines 29-163): the frame of a call eval(node)
NewFrame(node) ==
    CASE node.type \in {"Program", "BlockStatement"} ->
            [fn |-> node.type, node |-> node, pc |-> 0, result |-> Null]
      [] node.type \in {"Infix", "Index"} ->
            [fn |-> node.type, node |-> node, pc |-> 0, left |-> NoValue]
      [] node.type = "Call" ->
            [fn |-> node.type, node |-> node, pc |-> 0, func |-> NoValue]
      [] node.type = "HashLiteral" ->
            [fn |-> node.type, node |-> node, pc |-> 0, i |-> 1,
             hash_value |-> <<>>, hash_key |-> ""]
      [] OTHER -> [fn |-> node.type, node |-> node, pc |-> 0]

\* the frame of a call eval_expressions(exps)
ExpressionsFrame(exps) ==
    [fn |-> "eval_expressions", exps |-> exps, result |-> <<>>]

\* the frame of a call apply_function(func, args)
ApplyFrame(func, args) ==
    [fn |-> "apply_function", func |-> func, args |-> args, old_env |-> 0,
     pc |-> 0]

top == stack[Len(stack)]

Running(fn) == status = "run" /\ Len(stack) > 0 /\ top.fn = fn

\* the callee that just finished handed a value back
Received == ret.kind # "<none>"

\* the top frame becomes f and calls a callee whose frame is g
Descend(f, g) ==
    /\ stack' = Append([stack EXCEPT ![Len(stack)] = f], g)
    /\ ret' = NoValue
    /\ status' = status

\* the top frame returns v to its caller; the outermost return ends eval
Return(v) ==
    /\ stack' = SubSeq(stack, 1, Len(stack) - 1)
    /\ ret' = v
    /\ status' = IF Len(stack) = 1 THEN "done" ELSE status

\* the thread panics: the evaluation is aborted where it stands
Abort == status' = "panic" /\ UNCHANGED <<stack, ret>>

\* nested function applications in progress
Depth == Cardinality({i \in 1..Len(stack) : stack[i].fn = "apply_function"})

(***************************************************************************)
(* The handlers.  Each action is one handler of the evaluator; it runs     *)
(* from the frame's position to the handler's next call or to its return.  *)
(***************************************************************************)
\* EvalProgram going on to the next statement after a return carrier (the
\* ReturnValue arm of the match dropped)
EvalProgram_NoStop ==
    /\ Running("Program")
    /\ LET statements == top.node.statements
       IN  IF ~Received
           THEN IF Len(statements) = 0
                THEN Return(top.result)
                ELSE Descend(top, NewFrame(statements[1]))
           ELSE IF ret.kind = "ERROR" THEN Return(ret)
           ELSE IF top.pc + 1 < Len(statements)
           THEN Descend([top EXCEPT !.pc = @ + 1, !.result = ret],
                        NewFrame(statements[top.pc + 2]))
           ELSE Return(ret)
    /\ UNCHANGED <<input, env, envs>>

\* eval_program (lines 190-204)
EvalProgram ==
    /\ Running("Program")
    /\ LET statements == top.node.statements
       IN  IF ~Received
           THEN IF Len(statements) = 0
                THEN Return(top.result)
                ELSE Descend(top, NewFrame(statements[1]))
           ELSE IF ret.kind = "RETURN_VALUE" THEN Return(ret.value)
           ELSE IF ret.kind = "ERROR" THEN Return(ret)
           ELSE IF top.pc + 1 < Len(statements)
           THEN Descend([top EXCEPT !.pc = @ + 1, !.result = ret],
                        NewFrame(statements[top.pc + 2]))
           ELSE Return(ret)
    /\ UNCHANGED <<input, env, envs>>

\* eval_block_statement (lines 220-234)
EvalBlockStatement ==
    /\ Running("BlockStatement")
    /\ LET statements == top.node.statements
       IN  IF ~Received
           THEN IF Len(statements) = 0
                THEN Return(top.result)
                ELSE Descend(top, NewFrame(statements[1]))
           ELSE IF ret.kind = "RETURN_VALUE" THEN Return(ret)
           ELSE IF ret.kind = "ERROR" THEN Return(ret)
           ELSE IF top.pc + 1 < Len(statements)
           THEN Descend([top EXCEPT !.pc = @ + 1, !.result = ret],
                        NewFrame(statements[top.pc + 2]))
           ELSE Return(ret)
    /\ UNCHANGED <<input, env, envs>>

\* Statement::Expression (lines 32-34)
EvalExpressionStatement ==
    /\ Running("ExpressionStatement")
    /\ IF ~Received
       THEN Descend(top, NewFrame(top.node.expression))
       ELSE Return(ret)
    /\ UNCHANGED <<input, env, envs>>

\* Statement::Return (lines 36-43)
EvalReturn ==
    /\ Running("Return")
    /\ IF ~Received
       THEN Descend(top, NewFrame(top.node.return_value))
       ELSE LET value == ret
            IN  IF is_error(value) THEN Return(value)
                ELSE Return(ReturnValue(value))
    /\ UNCHANGED <<input, env, envs>>

\* the nearest context from e outwards that binds name, e itself if none
\* does
RECURSIVE Binder(_, _, _)
Binder(heap, e, name) ==
    IF name \in DOMAIN heap[e].store \/ heap[e].outer = 0 THEN e
    ELSE LET found == Binder(heap, heap[e].outer, name)
         IN  IF name \in DOMAIN heap[found].store THEN found ELSE e

\* EvalLet as an assignment: it writes to the context that already binds
\* the name, the active one if none does
EvalLet_Assign ==
    /\ Running("Let")
    /\ IF ~Received
       THEN /\ Descend(top, NewFrame(top.node.value))
            /\ envs' = envs
       ELSE LET value == ret
            IN  IF is_error(value)
                THEN Return(value) /\ envs' = envs
                ELSE /\ envs' = [envs EXCEPT
                                   ![Binder(envs, env, top.node.name.value)].store =
                                    set(@, top.node.name.value, value)]
                     /\ Return(value)
    /\ UNCHANGED <<input, env>>

\* Statement::Let (lines 45-55)
EvalLet ==
    /\ Running("Let")
    /\ IF ~Received
       THEN /\ Descend(top, NewFrame(top.node.value))
            /\ envs' = envs
       ELSE LET value == ret
            IN  IF is_error(value)
                THEN Return(value) /\ envs' = envs
                ELSE /\ envs' = [envs EXCEPT ![env].store =
                                    set(@, top.node.name.value, value)]
                     /\ Return(value)
    /\ UNCHANGED <<input, env>>

\* eval_indentifier (lines 422-433)
eval_indentifier(node) ==
    LET value == get(envs, env, node.value)
    IN  IF value.kind # "<none>" THEN value
        ELSE IF function_exists(node.value) THEN BuiltinFunction(node.value)
        ELSE RuntimeError("identifier not found: " \o node.value)

\* Expression::Identifier (line 59)
EvalIdentifier ==
    /\ Running("Identifier")
    /\ Return(eval_indentifier(top.node))
    /\ UNCHANGED <<input, env, envs>>

\* Expression::IntegerLiteral (lines 61-63)
EvalIntegerLiteral ==
    /\ Running("IntegerLiteral")
    /\ Return(Integer(top.node.value))
    /\ UNCHANGED <<input, env, envs>>

\* Expression::StringLiteral (lines 65-67)
EvalStringLiteral ==
    /\ Running("StringLiteral")
    /\ Return(Str(top.node.value))
    /\ UNCHANGED <<input, env, envs>>

\* Expression::Boolean (lines 91-93)
EvalBoolean ==
    /\ Running("Boolean")
    /\ Return(native_bool_to_boolean_object(top.node.value))
    /\ UNCHANGED <<input, env, envs>>

\* EvalFunctionLiteral capturing a copy of the active context (a clone of
\* the Enviroment instead of a clone of the Rc)
EvalFunctionLiteral_Snapshot ==
    /\ Running("FunctionLiteral")
    /\ envs' = Append(envs, envs[env])
    /\ Return(Function(top.node.parameters, top.node.body, Len(envs) + 1))
    /\ UNCHANGED <<input, env>>

\* Expression::FunctionLiteral (lines 95-99): Rc::clone(&self.env) shares
\* the active context, it does not copy it
EvalFunctionLiteral ==
    /\ Running("FunctionLiteral")
    /\ Return(Function(top.node.parameters, top.node.body, env))
    /\ UNCHANGED <<input, env, envs>>

\* eval_expressions (lines 206-218); it returns a Vec<Object>
EvalExpressions ==
    /\ Running("eval_expressions")
    /\ LET exps == top.exps
       IN  IF ~Received
           THEN IF Len(exps) = 0
                THEN Return(Vec(top.result))
                ELSE Descend(top, NewFrame(exps[1]))
           ELSE LET evaluated == ret
                    result == Append(top.result, evaluated)
                IN  IF is_error(evaluated) THEN Return(Vec(<<evaluated>>))
                    ELSE IF Len(result) < Len(exps)
                    THEN Descend([top EXCEPT !.result = result],
                                 NewFrame(exps[Len(result) + 1]))
                    ELSE Return(Vec(result))
    /\ UNCHANGED <<input, env, envs>>

\* Expression::ArrayLiteral (lines 69-75)
EvalArrayLiteral ==
    /\ Running("ArrayLiteral")
    /\ IF ~Received
       THEN Descend(top, ExpressionsFrame(top.node.elements))
       ELSE LET elements == ret.elements
            IN  IF Len(elements) = 1 /\ is_error(elements[1])
                THEN Return(elements[1])
                ELSE Return(Array(elements))
    /\ UNCHANGED <<input, env, envs>>

\* EvalHashLiteral keeping the entry a key already has (an insert that does
\* not overwrite)
EvalHashLiteral_KeepFirst ==
    /\ Running("HashLiteral")
    /\ LET members == top.node.members
       IN  CASE top.pc = 0 ->
                  IF Len(members) = 0
                  THEN Return(Hash(top.hash_value))
                  ELSE Descend([top EXCEPT !.pc = 1], NewFrame(members[1].key))
             [] top.pc = 1 ->
                  LET key == ret
                  IN  IF is_error(key) THEN Return(key)
                      ELSE IF key.kind \in HashKeyKinds
                      THEN Descend([top EXCEPT !.pc = 2,
                                               !.hash_key = hash_key(key)],
                                   NewFrame(members[top.i].value))
                      ELSE Return(RuntimeError(
                             "only string, integer and boolean can be hash key, found "
                             \o kind(key)))
             [] top.pc = 2 ->
                  LET value == ret
                      hash_value ==
                          IF top.hash_key \in DOMAIN top.hash_value
                          THEN top.hash_value
                          ELSE set(top.hash_value, top.hash_key, value)
                  IN  IF is_error(value) THEN Return(value)
                      ELSE IF top.i < Len(members)
                      THEN Descend([top EXCEPT !.pc = 1, !.i = @ + 1,
                                               !.hash_value = hash_value],
                                   NewFrame(members[top.i + 1].key))
                      ELSE Return(Hash(hash_value))
    /\ UNCHANGED <<input, env, envs>>

\* eval_hash_literal (lines 351-380)
EvalHashLiteral ==
    /\ Running("HashLiteral")
    /\ LET members == top.node.members
       IN  CASE top.pc = 0 ->
                  IF Len(members) = 0
                  THEN Return(Hash(top.hash_value))
                  ELSE Descend([top EXCEPT !.pc = 1], NewFrame(members[1].key))
             [] top.pc = 1 ->
                  LET key == ret
                  IN  IF is_error(key) THEN Return(key)
                      ELSE IF key.kind \in HashKeyKinds
                      THEN Descend([top EXCEPT !.pc = 2,
                                               !.hash_key = hash_key(key)],
                                   NewFrame(members[top.i].value))
                      ELSE Return(RuntimeError(
                             "only string, integer and boolean can be hash key, found "
                             \o kind(key)))
             [] top.pc = 2 ->
                  LET value == ret
                      hash_value == set(top.hash_value, top.hash_key, value)
                  IN  IF is_error(value) THEN Return(value)
                      ELSE IF top.i < Len(members)
                      THEN Descend([top EXCEPT !.pc = 1, !.i = @ + 1,
                                               !.hash_value = hash_value],
                                   NewFrame(members[top.i + 1].key))
                      ELSE Return(Hash(hash_value))
    /\ UNCHANGED <<input, env, envs>>

\* Expression::Index (lines 79-89)
EvalIndex ==
    /\ Running("Index")
    /\ CASE top.pc = 0 ->
              Descend([top EXCEPT !.pc = 1], NewFrame(top.node.left))
         [] top.pc = 1 ->
              LET left == ret
              IN  IF is_error(left) THEN Return(left)
                  ELSE Descend([top EXCEPT !.pc = 2, !.left = left],
                               NewFrame(top.node.index))
         [] top.pc = 2 ->
              LET index == ret
              IN  IF is_error(index) THEN Return(index)
                  ELSE Return(eval_index_expression(top.left, index))
    /\ UNCHANGED <<input, env, envs>>

\* Expression::Prefix (lines 101-108)
EvalPrefix ==
    /\ Running("Prefix")
    /\ IF ~Received
       THEN Descend(top, NewFrame(top.node.right))
       ELSE LET right == ret
            IN  IF is_error(right) THEN Return(right)
                ELSE Return(eval_prefix_expression(top.node.operator, right))
    /\ UNCHANGED <<input, env, envs>>

\* EvalInfix without the test of the left operand (lines 113-115 dropped)
EvalInfix_NoLeftCheck ==
    /\ Running("Infix")
    /\ CASE top.pc = 0 ->
              Descend([top EXCEPT !.pc = 1], NewFrame(top.node.left))
         [] top.pc = 1 ->
              Descend([top EXCEPT !.pc = 2, !.left = ret],
                      NewFrame(top.node.right))
         [] top.pc = 2 ->
              LET right == ret
                  value == eval_infix_expression(top.node.operator, top.left,
                                                 right)
              IN  IF is_error(right) THEN Return(right)
                  ELSE IF value.kind = "<panic>" THEN Abort
                  ELSE Return(value)
    /\ UNCHANGED <<input, env, envs>>

\* Expression::Infix (lines 110-124)
EvalInfix ==
    /\ Running("Infix")
    /\ CASE top.pc = 0 ->
              Descend([top EXCEPT !.pc = 1], NewFrame(top.node.left))
         [] top.pc = 1 ->
              LET left == ret
              IN  IF is_error(left) THEN Return(left)
                  ELSE Descend([top EXCEPT !.pc = 2, !.left = left],
                               NewFrame(top.node.right))
         [] top.pc = 2 ->
              LET right == ret
                  value == eval_infix_expression(top.node.operator, top.left,
                                                 right)
              IN  IF is_error(right) THEN Return(right)
                  ELSE IF value.kind = "<panic>" THEN Abort
                  ELSE Return(value)
    /\ UNCHANGED <<input, env, envs>>

\* EvalIf that tests the condition again after the block it selected (the
\* if taken for a loop)
EvalIf_Again ==
    /\ Running("If")
    /\ CASE top.pc = 0 ->
              Descend([top EXCEPT !.pc = 1], NewFrame(top.node.condition))
         [] top.pc = 1 ->
              LET condition == ret
              IN  IF is_error(condition) THEN Return(condition)
                  ELSE IF is_truthy(condition)
                  THEN Descend([top EXCEPT !.pc = 2],
                               NewFrame(top.node.consequence))
                  ELSE IF Len(top.node.alternative) > 0
                  THEN Descend([top EXCEPT !.pc = 2],
                               NewFrame(top.node.alternative[1]))
                  ELSE Return(Null)
         [] top.pc = 2 ->
              Descend([top EXCEPT !.pc = 1], NewFrame(top.node.condition))
    /\ UNCHANGED <<input, env, envs>>

\* eval_if_expression (lines 406-420)
EvalIf ==
    /\ Running("If")
    /\ CASE top.pc = 0 ->
              Descend([top EXCEPT !.pc = 1], NewFrame(top.node.condition))
         [] top.pc = 1 ->
              LET condition == ret
              IN  IF is_error(condition) THEN Return(condition)
                  ELSE IF is_truthy(condition)
                  THEN Descend([top EXCEPT !.pc = 2],
                               NewFrame(top.node.consequence))
                  ELSE IF Len(top.node.alternative) > 0
                  THEN Descend([top EXCEPT !.pc = 2],
                               NewFrame(top.node.alternative[1]))
                  ELSE Return(Null)
         [] top.pc = 2 -> Return(ret)
    /\ UNCHANGED <<input, env, envs>>

\* Expression::Call (lines 128-162): the arguments are evaluated inside the
\* arms of the match on the callee
EvalCall ==
    /\ Running("Call")
    /\ CASE top.pc = 0 ->
              Descend([top EXCEPT !.pc = 1], NewFrame(top.node.function))
         [] top.pc = 1 ->
              LET func == ret
              IN  IF is_error(func) THEN Return(func)
                  ELSE IF func.kind = "FUNCTION"
                  THEN Descend([top EXCEPT !.pc = 2, !.func = func],
                               ExpressionsFrame(top.node.arguments))
                  ELSE IF func.kind = "BUILTIN"
                  THEN Descend([top EXCEPT !.pc = 3, !.func = func],
                               ExpressionsFrame(top.node.arguments))
                  ELSE Return(RuntimeError("Not a function: " \o kind(func)))
         [] top.pc = 2 ->
              LET args == ret.elements
              IN  IF Len(args) = 1 /\ is_error(args[1]) THEN Return(args[1])
                  ELSE Descend([top EXCEPT !.pc = 4],
                               ApplyFrame(top.func, args))
         [] top.pc = 3 ->
              LET args == ret.elements
                  result == try_function(top.func.name, args)
              IN  IF Len(args) = 1 /\ is_error(args[1]) THEN Return(args[1])
                  ELSE IF result.kind # "<none>" THEN Return(result)
                  ELSE Return(RuntimeError("Not a function: "
                                           \o top.func.name))
         [] top.pc = 4 -> Return(ret)
    /\ UNCHANGED <<input, env, envs>>

\* extend_function_env with the caller's active context as the parent
\* (Rc::clone(&self.env) for Rc::clone(&func.env)): dynamic scope
extend_function_env_caller(func, args) ==
    LET parameters == func.parameters
        names == {parameters[i].value : i \in 1..Len(parameters)}
        last(n) == CHOOSE i \in 1..Len(parameters) :
                      /\ parameters[i].value = n
                      /\ \A j \in (i + 1)..Len(parameters) :
                            parameters[j].value # n
    IN  IF Len(args) < Len(parameters) THEN Panic
        ELSE Enviroment([n \in names |-> args[last(n)]], env)

\* extend_function_env (lines 174-180): the new context; a parameter name
\* that occurs twice keeps its last argument.  args[i] panics when there are
\* fewer arguments than parameters.
extend_function_env(func, args) ==
    LET parameters == func.parameters
        names == {parameters[i].value : i \in 1..Len(parameters)}
        last(n) == CHOOSE i \in 1..Len(parameters) :
                      /\ parameters[i].value = n
                      /\ \A j \in (i + 1)..Len(parameters) :
                            parameters[j].value # n
    IN  IF Len(args) < Len(parameters) THEN Panic
        ELSE Enviroment([n \in names |-> args[last(n)]], func.env)

\* ApplyFunction without line 170 (self.env = old_env): the callee's
\* context stays the active one
ApplyFunction_NoRestore ==
    /\ Running("apply_function")
    /\ IF ~Received
       THEN LET new == extend_function_env(top.func, top.args)
            IN  IF Depth > MaxDepth
                THEN /\ status' = "overflow"
                     /\ UNCHANGED <<stack, ret, env, envs>>
                ELSE IF new = Panic
                THEN Abort /\ UNCHANGED <<env, envs>>
                ELSE /\ envs' = Append(envs, new)
                     /\ env' = Len(envs) + 1
                     /\ Descend([top EXCEPT !.pc = 1, !.old_env = env],
                                NewFrame(top.func.body))
       ELSE /\ env' = env
            /\ envs' = envs
            /\ Return(unwrap_return_value(ret))
    /\ UNCHANGED input

\* apply_function (lines 166-172).  The host stack holds MaxDepth nested
\* applications; one more exhausts it and the process is killed.
ApplyFunction ==
    /\ Running("apply_function")
    /\ IF ~Received
       THEN LET new == extend_function_env(top.func, top.args)
            IN  IF Depth > MaxDepth
                THEN /\ status' = "overflow"
                     /\ UNCHANGED <<stack, ret, env, envs>>
                ELSE IF new = Panic
                THEN Abort /\ UNCHANGED <<env, envs>>
                ELSE /\ envs' = Append(envs, new)
                     /\ env' = Len(envs) + 1
                     /\ Descend([top EXCEPT !.pc = 1, !.old_env = env],
                                NewFrame(top.func.body))
       ELSE /\ env' = top.old_env
            /\ envs' = envs
            /\ Return(unwrap_return_value(ret))
    /\ UNCHANGED input

(***************************************************************************)
(* Inputs: the syntax trees the parser hands to eval.  Shorthands first.   *)
(***************************************************************************)
Num(n) == IntegerLiteral(n)

Var(name) == Identifier(name)

Text(s) == StringLiteral(s)

Expr(e) == ExpressionStatement(e)

Let(name, e) == LetStatement(Identifier(name), e)

Ret(e) == ReturnStatement(e)

Fn(names, statements) ==
    FunctionLiteral([i \in 1..Len(names) |-> Identifier(names[i])],
                    BlockStatement(statements))

IfThen(c, statements) == IfExpression(c, BlockStatement(statements), <<>>)

IfElse(c, statements, otherwise) ==
    IfExpression(c, BlockStatement(statements),
                 <<BlockStatement(otherwise)>>)

\* the hash literal of tests::test_hash_literals without its last two pairs,
\* as in the spec's scenario 8.2(6)
SampleHash ==
    HashLiteral(<<Member(Text("one"), Infix("-", Num(10), Num(9))),
                  Member(Text("two"), Infix("+", Num(1), Num(1))),
                  Member(Num(4), Num(4)),
                  Member(BooleanLiteral(TRUE), Num(5))>>)

(***************************************************************************)
(* The inputs of the repository's tests with the results they assert.      *)
(***************************************************************************)
TestCases ==
  << \* test_eval_integer_expressions
     [statements |-> <<Expr(Prefix("-", Num(5)))>>, expected |-> Integer(-5)],
     [statements |-> <<Expr(Infix("+", Infix("+", Prefix("-", Num(50)),
                                              Num(100)),
                             Prefix("-", Num(50))))>>,
      expected |-> Integer(0)],
     [statements |-> <<Expr(Infix("+",
                         Infix("*",
                           Infix("+", Infix("+", Num(5),
                                            Infix("*", Num(10), Num(2))),
                                 Infix("/", Num(15), Num(3))),
                           Num(2)),
                         Prefix("-", Num(10))))>>,
      expected |-> Integer(50)],
     \* test_eval_boolean_expresions
     [statements |-> <<Expr(Infix("==", Infix("<", Num(1), Num(2)),
                             BooleanLiteral(TRUE)))>>,
      expected |-> Boolean(TRUE)],
     [statements |-> <<Expr(Infix("!=", BooleanLiteral(TRUE),
                             BooleanLiteral(FALSE)))>>,
      expected |-> Boolean(TRUE)],
     \* test_eval_bang_operators
     [statements |-> <<Expr(Prefix("!", Num(5)))>>,
      expected |-> Boolean(FALSE)],
     [statements |-> <<Expr(Prefix("!", Prefix("!", Num(5))))>>,
      expected |-> Boolean(TRUE)],
     \* test_if_else_expressions
     [statements |-> <<Expr(IfThen(Infix(">", Num(1), Num(2)),
                                   <<Expr(Num(10))>>))>>,
      expected |-> Null],
     [statements |-> <<Expr(IfElse(Infix(">", Num(1), Num(2)),
                                   <<Expr(Num(10))>>, <<Expr(Num(20))>>))>>,
      expected |-> Integer(20)],
     [statements |-> <<Expr(IfThen(Num(1), <<Expr(Num(10))>>))>>,
      expected |-> Integer(10)],
     \* test_return_statements
     [statements |-> <<Expr(Num(9)), Ret(Infix("*", Num(2), Num(5))),
                       Expr(Num(9))>>,
      expected |-> Integer(10)],
     [statements |-> <<Expr(IfThen(Infix(">", Num(10), Num(1)),
                         <<Expr(IfThen(Infix(">", Num(10), Num(1)),
                                       <<Ret(Num(10))>>)),
                           Ret(Num(1))>>))>>,
      expected |-> Integer(10)],
     \* test_error_handling
     [statements |-> <<Expr(Infix("+", Num(5), BooleanLiteral(TRUE))),
                       Expr(Num(5))>>,
      expected |-> RuntimeError("type mismatch: INTEGER + BOOLEAN")],
     [statements |-> <<Expr(Prefix("-", BooleanLiteral(TRUE)))>>,
      expected |-> RuntimeError("unknown operator: -BOOLEAN")],
     [statements |-> <<Expr(IfThen(Infix(">", Num(10), Num(1)),
                         <<Expr(IfThen(Infix(">", Num(10), Num(1)),
                                  <<Ret(Infix("+", BooleanLiteral(TRUE),
                                              BooleanLiteral(FALSE)))>>)),
                           Ret(Num(1))>>))>>,
      expected |-> RuntimeError("unknown operator: BOOLEAN + BOOLEAN")],
     [statements |-> <<Expr(Var("foobar"))>>,
      expected |-> RuntimeError("identifier not found: foobar")],
     [statements |-> <<Expr(Infix("-", Text("Hello"), Text("World")))>>,
      expected |-> RuntimeError("unknown operator: STRING - STRING")],
     \* test_let_statements
     [statements |-> <<Let("a", Num(5)), Let("b", Var("a")),
                       Let("c", Infix("+", Infix("+", Var("a"), Var("b")),
                                      Num(5))),
                       Expr(Var("c"))>>,
      expected |-> Integer(15)],
     \* test_function_application
     [statements |-> <<Let("identity", Fn(<<"x">>, <<Ret(Var("x"))>>)),
                       Expr(Call(Var("identity"), <<Num(5)>>))>>,
      expected |-> Integer(5)],
     [statements |-> <<Let("add", Fn(<<"x", "y">>,
                                     <<Expr(Infix("+", Var("x"), Var("y")))>>)),
                       Expr(Call(Var("add"),
                                 <<Infix("+", Num(5), Num(5)),
                                   Call(Var("add"), <<Num(5), Num(5)>>)>>))>>,
      expected |-> Integer(20)],
     [statements |-> <<Expr(Call(Fn(<<"x">>, <<Expr(Var("x"))>>),
                                 <<Num(5)>>))>>,
      expected |-> Integer(5)],
     \* test_closures
     [statements |-> <<Let("newAdder",
                           Fn(<<"x">>,
                              <<Expr(Fn(<<"y">>,
                                  <<Expr(Infix("+", Var("x"), Var("y")))>>))>>)),
                       Let("addTwo", Call(Var("newAdder"), <<Num(2)>>)),
                       Expr(Call(Var("addTwo"), <<Num(2)>>))>>,
      expected |-> Integer(4)],
     \* test_string_concatenation
     [statements |-> <<Expr(Infix("+", Infix("+", Text("Hello"), Text(" ")),
                             Text("world!")))>>,
      expected |-> Str("Hello world!")],
     \* test_builtin_functions, test_rest_function
     [statements |-> <<Expr(Call(Var("len"), <<Text("four")>>))>>,
      expected |-> Integer(4)],
     [statements |-> <<Expr(Call(Var("len"),
                                 <<ArrayLiteral(<<Num(1), Num(2), Num(3)>>)>>))>>,
      expected |-> Integer(3)],
     [statements |-> <<Expr(Call(Var("first"),
                                 <<ArrayLiteral(<<Num(1), Num(2), Num(3)>>)>>))>>,
      expected |-> Integer(1)],
     [statements |-> <<Expr(Call(Var("last"),
                                 <<ArrayLiteral(<<Num(1), Num(2), Num(3)>>)>>))>>,
      expected |-> Integer(3)],
     [statements |-> <<Expr(Call(Var("len"), <<Num(1)>>))>>,
      expected |->
          RuntimeError("argument to 'len' not supported, got INTEGER")],
     [statements |-> <<Expr(Call(Var("len"), <<Text("one"), Text("two")>>))>>,
      expected |-> RuntimeError("wrong number of arguments. got=2, want=1")],
     [statements |-> <<Expr(Call(Var("rest"),
                                 <<ArrayLiteral(<<Num(1), Num(2), Num(3)>>)>>))>>,
      expected |-> Array(<<Integer(2), Integer(3)>>)],
     \* test_array_literals, test_array_index_expressions
     [statements |-> <<Expr(ArrayLiteral(<<Num(1), Infix("*", Num(2), Num(2)),
                                           Infix("+", Num(3), Num(3))>>))>>,
      expected |-> Array(<<Integer(1), Integer(4), Integer(6)>>)],
     [statements |-> <<Expr(Index(ArrayLiteral(<<Num(1), Num(2), Num(3)>>),
                                  Infix("+", Num(1), Num(1))))>>,
      expected |-> Integer(3)],
     [statements |-> <<Expr(Index(ArrayLiteral(<<Num(1), Num(2), Num(3)>>),
                                  Num(3)))>>,
      expected |-> Null],
     [statements |-> <<Expr(Index(ArrayLiteral(<<Num(1), Num(2), Num(3)>>),
                                  Prefix("-", Num(1))))>>,
      expected |-> Null],
     [statements |-> <<Let("myArray", ArrayLiteral(<<Num(1), Num(2), Num(3)>>)),
                       Let("i", Index(Var("myArray"), Num(0))),
                       Expr(Index(Var("myArray"), Var("i")))>>,
      expected |-> Integer(2)],
     \* test_hash_literals
     [statements |->
        <<Let("two", Text("two")),
          Expr(HashLiteral(
            <<Member(Text("one"), Infix("-", Num(10), Num(9))),
              Member(Var("two"), Infix("+", Num(1), Num(1))),
              Member(Infix("+", Text("thr"), Text("ee")),
                     Infix("/", Num(6), Num(2))),
              Member(Num(4), Num(4)),
              Member(BooleanLiteral(TRUE), Num(5)),
              Member(BooleanLiteral(FALSE), Num(6))>>))>>,
      expected |->
        Hash([k \in {"S:one", "S:two", "S:three", "I:4", "B:true", "B:false"}
              |-> CASE k = "S:one" -> Integer(1)
                    [] k = "S:two" -> Integer(2)
                    [] k = "S:three" -> Integer(3)
                    [] k = "I:4" -> Integer(4)
                    [] k = "B:true" -> Integer(5)
                    [] k = "B:false" -> Integer(6)])]
  >>

(***************************************************************************)
(* Generated inputs.                                                       *)
(***************************************************************************)
InfixOperators == {"+", "-", "*", "/", "<", ">", "==", "!="}

\* an expression that reduces to the error "identifier not found: foobar"
Foobar == Var("foobar")

\* a sibling that must not be evaluated: it would reduce to another error
Later == Var("later")

\* an expression that reduces to a return carrier
Carrier == IfThen(BooleanLiteral(TRUE), <<Ret(Num(1))>>)

\* expressions that reduce to a value of every kind but ERROR
Operands ==
    <<Num(0), Num(2), Num(7), Prefix("-", Num(3)),
      BooleanLiteral(TRUE), BooleanLiteral(FALSE),
      Text("a"), Text(""),
      IfThen(BooleanLiteral(FALSE), <<Expr(Num(1))>>),
      ArrayLiteral(<<Num(1)>>),
      HashLiteral(<<>>),
      Fn(<<>>, <<>>),
      Var("len"),
      Carrier>>

\* the composite forms around a sub-expression e, with siblings after it
Forms == 1..18

Form(k, e) ==
    CASE k = 0 -> e
      [] k = 1 -> Prefix("!", e)
      [] k = 2 -> Prefix("-", e)
      [] k = 3 -> Infix("+", e, Later)
      [] k = 4 -> Infix("+", Num(1), e)
      [] k = 5 -> Index(e, Later)
      [] k = 6 -> Index(ArrayLiteral(<<Num(1)>>), e)
      [] k = 7 -> ArrayLiteral(<<e, Later>>)
      [] k = 8 -> ArrayLiteral(<<Num(1), e, Later>>)
      [] k = 9 -> HashLiteral(<<Member(e, Later)>>)
      [] k = 10 -> HashLiteral(<<Member(Num(1), e), Member(Later, Num(2))>>)
      [] k = 11 -> IfElse(e, <<Expr(Later)>>, <<Expr(Later)>>)
      [] k = 12 -> IfThen(BooleanLiteral(TRUE), <<Expr(e), Expr(Later)>>)
      [] k = 13 -> Call(e, <<Later>>)
      [] k = 14 -> Call(Var("len"), <<e, Later>>)
      [] k = 15 -> Call(Fn(<<"x", "y">>, <<Expr(Var("x"))>>), <<Num(1), e>>)
      [] k = 16 -> Call(Fn(<<>>, <<Expr(e), Expr(Later)>>), <<>>)
      [] k = 17 -> ArrayLiteral(<<e>>)
      [] k = 18 -> IfElse(BooleanLiteral(FALSE), <<Expr(Later)>>,
                          <<Expr(e), Expr(Later)>>)

\* the statements around an expression e, with a statement after it
StatementForm(k, e) ==
    CASE k = 1 -> <<Expr(e), Expr(Later)>>
      [] k = 2 -> <<Let("a", e), Expr(Later)>>
      [] k = 3 -> <<Ret(e), Expr(Later)>>

\* statement s inside d nested if-blocks, each with a statement after it
RECURSIVE Nested(_, _)
Nested(d, s) ==
    IF d = 0 THEN s
    ELSE Expr(IfThen(BooleanLiteral(TRUE),
                     <<Nested(d - 1, s), Expr(Num(90 + d))>>))

ReturnShapes == {"statement", "operand", "let", "element"}

\* a function body with `return 10` inside d >= 1 nested if-blocks, the
\* outermost if being a statement, the operand of a return, the right-hand
\* side of a let or an array element; a statement follows
ReturnBody(shape, d) ==
    LET inner == IfThen(BooleanLiteral(TRUE),
                        <<Nested(d - 1, Ret(Num(10))), Expr(Num(91))>>)
    IN  CASE shape = "statement" -> <<Expr(inner), Expr(Num(92))>>
          [] shape = "operand" -> <<Ret(inner), Expr(Num(92))>>
          [] shape = "let" -> <<Let("x", inner), Expr(Num(92))>>
          [] shape = "element" ->
                <<Expr(ArrayLiteral(<<inner>>)), Expr(Num(92))>>

\* the function is called from the top level or from another function; a
\* statement follows the call
ReturnProgram(shape, d, caller) ==
    IF caller = "top"
    THEN <<Let("f", Fn(<<>>, ReturnBody(shape, d))),
           Expr(Call(Var("f"), <<>>)),
           Expr(Num(7))>>
    ELSE <<Let("f", Fn(<<>>, ReturnBody(shape, d))),
           Let("g", Fn(<<>>, <<Expr(Call(Var("f"), <<>>)), Expr(Num(7))>>)),
           Expr(Call(Var("g"), <<>>)),
           Expr(Num(8))>>

\* `let a = v1; let f = fn() { a }; let a = v2; f()`
CaptureProgram(v1, v2) ==
    <<Let("a", Num(v1)), Let("f", Fn(<<>>, <<Expr(Var("a"))>>)),
      Let("a", Num(v2)), Expr(Call(Var("f"), <<>>))>>

\* `let f = fn(n) { if (n < 1) { 0 } else { f(n - 1) } }; f(k)`
CountProgram(k) ==
    <<Let("f", Fn(<<"n">>,
                  <<Expr(IfElse(Infix("<", Var("n"), Num(1)),
                                <<Expr(Num(0))>>,
                                <<Expr(Call(Var("f"),
                                     <<Infix("-", Var("n"), Num(1))>>))>>))>>)),
      Expr(Call(Var("f"), <<Num(k)>>))>>

Callees ==
    <<Fn(<<"x", "y">>, <<Expr(Var("x"))>>), Var("len"), Var("push"),
      Num(1), Text("s"), BooleanLiteral(TRUE), ArrayLiteral(<<>>),
      HashLiteral(<<>>), IfThen(BooleanLiteral(FALSE), <<>>), Carrier>>

ArgumentLists ==
    <<<<Foobar>>, <<Num(1), Foobar>>, <<Foobar, Later>>,
      <<Num(1), Foobar, Later>>, <<Num(1), Num(2)>>, <<>>,
      <<ArrayLiteral(<<>>), Num(2)>>>>

HashIndexKeys ==
    <<Text("two"), Text("one"), Num(4), BooleanLiteral(TRUE),
      Text("three"), Num(5), BooleanLiteral(FALSE)>>

\* pairs of a hash literal: the key and the value expression, with the hash
\* key the pair inserts under (k, "" when it inserts nothing), the value it
\* inserts (v) and the error it stops the literal with (error, "" for none)
HashPairs ==
  << [key |-> Num(1), value |-> Num(10), k |-> "I:1", v |-> Integer(10),
      error |-> ""],
     [key |-> Num(1), value |-> Num(20), k |-> "I:1", v |-> Integer(20),
      error |-> ""],
     [key |-> Text("1"), value |-> Num(30), k |-> "S:1", v |-> Integer(30),
      error |-> ""],
     [key |-> BooleanLiteral(TRUE), value |-> Text("t"), k |-> "B:true",
      v |-> Str("t"), error |-> ""],
     [key |-> Infix("-", Num(2), Num(1)), value |-> Infix("+", Num(49), Num(1)),
      k |-> "I:1", v |-> Integer(50), error |-> ""],
     [key |-> ArrayLiteral(<<>>), value |-> Later, k |-> "", v |-> Null,
      error |-> "only string, integer and boolean can be hash key, found ARRAY"],
     [key |-> Fn(<<>>, <<>>), value |-> Later, k |-> "", v |-> Null,
      error |-> "only string, integer and boolean can be hash key, found FUNCTION"],
     [key |-> IfThen(BooleanLiteral(FALSE), <<>>), value |-> Later, k |-> "",
      v |-> Null,
      error |-> "only string, integer and boolean can be hash key, found NULL"],
     [key |-> HashLiteral(<<>>), value |-> Later, k |-> "", v |-> Null,
      error |-> "only string, integer and boolean can be hash key, found HASH"],
     [key |-> Foobar, value |-> Later, k |-> "", v |-> Null,
      error |-> "identifier not found: foobar"],
     [key |-> Text("a"), value |-> Foobar, k |-> "", v |-> Null,
      error |-> "identifier not found: foobar"]
  >>

\* the hash literal of the pairs numbered ps (0: no pair at that place)
RECURSIVE HashPairsOf(_)
HashPairsOf(ps) ==
    IF Len(ps) = 0 THEN <<>>
    ELSE IF ps[1] = 0 THEN HashPairsOf(Tail(ps))
    ELSE <<HashPairs[ps[1]]>> \o HashPairsOf(Tail(ps))

HashProgram(ps) ==
    LET pairs == HashPairsOf(ps)
    IN  <<Expr(HashLiteral([i \in 1..Len(pairs) |->
                              Member(pairs[i].key, pairs[i].value)]))>>

\* top-level statements, with how each ends (outcome: "value", "return" for
\* a return carrier, "error"), the value, inner value or error it ends
\* with (result) and the name it binds in the context (binds, "" for none)
TopStatements ==
  << [statement |-> Let("a", Num(1)), outcome |-> "value",
      result |-> Integer(1), binds |-> "a"],
     [statement |-> Let("b", Infix("+", Num(1), Num(1))), outcome |-> "value",
      result |-> Integer(2), binds |-> "b"],
     [statement |-> Expr(Num(3)), outcome |-> "value",
      result |-> Integer(3), binds |-> ""],
     [statement |-> Ret(Num(5)), outcome |-> "return",
      result |-> Integer(5), binds |-> ""],
     [statement |-> Expr(IfThen(BooleanLiteral(TRUE),
                                <<Ret(Num(6)), Expr(Later)>>)),
      outcome |-> "return", result |-> Integer(6), binds |-> ""],
     [statement |-> Expr(Foobar), outcome |-> "error",
      result |-> RuntimeError("identifier not found: foobar"), binds |-> ""],
     [statement |-> Let("c", Foobar), outcome |-> "error",
      result |-> RuntimeError("identifier not found: foobar"), binds |-> ""],
     [statement |-> Ret(Foobar), outcome |-> "error",
      result |-> RuntimeError("identifier not found: foobar"), binds |-> ""],
     [statement |-> Expr(Call(Fn(<<>>, <<Ret(Num(9)), Expr(Later)>>), <<>>)),
      outcome |-> "value", result |-> Integer(9), binds |-> ""],
     [statement |-> Expr(IfThen(BooleanLiteral(FALSE), <<>>)),
      outcome |-> "value", result |-> Null, binds |-> ""],
     [statement |-> Let("d", Carrier), outcome |-> "return",
      result |-> Integer(1), binds |-> "d"]
  >>

\* the top-level statements numbered ps (0: no statement at that place)
RECURSIVE TopStatementsOf(_)
TopStatementsOf(ps) ==
    IF Len(ps) = 0 THEN <<>>
    ELSE IF ps[1] = 0 THEN TopStatementsOf(Tail(ps))
    ELSE <<TopStatements[ps[1]]>> \o TopStatementsOf(Tail(ps))

TopProgram(ps) ==
    LET tops == TopStatementsOf(ps)
    IN  [i \in 1..Len(tops) |-> tops[i].statement]

\* bodies of `f = fn(x) { ... }`: the application ends with a value, with a
\* return carrier (at the top of the body and inside an if), with an error,
\* after a let of its own, and after an application nested in it
RestoreBodies ==
  << <<Expr(Var("x"))>>,
     <<Ret(Var("x")), Expr(Later)>>,
     <<Expr(IfThen(BooleanLiteral(TRUE), <<Ret(Var("x"))>>)), Expr(Later)>>,
     <<Expr(Foobar)>>,
     <<Let("w", Num(0)), Expr(Var("x"))>>,
     <<Expr(Call(Var("g"), <<Infix("+", Var("x"), Num(1))>>)),
       Expr(Var("x"))>> >>

\* what follows the call f(5) in the caller, whose context binds x and w:
\* a statement, a later argument, a right operand, later array elements
RestoreUses ==
  << <<Expr(Call(Var("f"), <<Num(5)>>)),
       Expr(Infix("+", Var("x"), Var("w")))>>,
     <<Expr(Call(Var("add"), <<Call(Var("f"), <<Num(5)>>),
                               Infix("+", Var("x"), Var("w"))>>))>>,
     <<Expr(Infix("+", Call(Var("f"), <<Num(5)>>),
                  Infix("+", Var("x"), Var("w"))))>>,
     <<Expr(ArrayLiteral(<<Call(Var("f"), <<Num(5)>>), Var("x"), Var("w")>>))>> >>

\* `let g = ..; let add = ..; let f = fn(x) { body }`, then the use at the
\* top level after `let x = 1; let w = 2`, or in `h = fn(x, w) { use }`
\* called as h(1, 2)
RestoreProgram(body, use, caller) ==
    <<Let("g", Fn(<<"x">>, <<Expr(Var("x"))>>)),
      Let("add", Fn(<<"a", "b">>, <<Expr(Infix("+", Var("a"), Var("b")))>>)),
      Let("f", Fn(<<"x">>, RestoreBodies[body]))>>
    \o (IF caller = "top"
        THEN <<Let("x", Num(1)), Let("w", Num(2))>> \o RestoreUses[use]
        ELSE <<Let("h", Fn(<<"x", "w">>, RestoreUses[use])),
               Expr(Call(Var("h"), <<Num(1), Num(2)>>))>>)

\* right-hand sides of `let x = ...`: a literal, an expression that reads
\* the x already visible, an error
LetValues == <<Num(7), Infix("+", Var("x"), Num(1)), Foobar>>

\* `let x = 1; let y = 2;` and then `let x = RHS` at the top level, in the
\* body of f, or in the body of g defined and called in the body of f,
\* which has an x of its own
LetProgram(rhs, place) ==
    <<Let("x", Num(1)), Let("y", Num(2))>>
    \o CASE place = "top" -> <<Let("x", LetValues[rhs])>>
          [] place = "fn" ->
               <<Let("f", Fn(<<>>, <<Let("x", LetValues[rhs]),
                                     Expr(Var("x"))>>)),
                 Expr(Call(Var("f"), <<>>))>>
          [] place = "nested" ->
               <<Let("f", Fn(<<>>,
                   <<Let("x", Num(3)),
                     Let("g", Fn(<<>>, <<Let("x", LetValues[rhs]),
                                         Expr(Var("x"))>>)),
                     Expr(Infix("+", Call(Var("g"), <<>>), Var("x")))>>)),
                 Expr(Call(Var("f"), <<>>))>>

\* programs about scope, with the results lexical scoping gives
ScopeCases ==
  << \* the callee does not see the caller's frame
     [statements |-> <<Let("f", Fn(<<>>, <<Expr(Var("x"))>>)),
                       Let("g", Fn(<<"x">>, <<Expr(Call(Var("f"), <<>>))>>)),
                       Expr(Call(Var("g"), <<Num(5)>>))>>,
      expected |-> RuntimeError("identifier not found: x")],
     [statements |-> <<Let("x", Num(1)),
                       Let("f", Fn(<<>>, <<Expr(Var("x"))>>)),
                       Let("g", Fn(<<"x">>, <<Expr(Call(Var("f"), <<>>))>>)),
                       Expr(Call(Var("g"), <<Num(5)>>))>>,
      expected |-> Integer(1)],
     \* a let in the caller's frame is not seen either
     [statements |-> <<Let("f", Fn(<<>>, <<Expr(Var("y"))>>)),
                       Let("g", Fn(<<>>, <<Let("y", Num(3)),
                                           Expr(Call(Var("f"), <<>>))>>)),
                       Expr(Call(Var("g"), <<>>))>>,
      expected |-> RuntimeError("identifier not found: y")],
     \* spec 8.1(4): `let mk = fn(x){ fn(y){ x + y } }; mk(2)(3)`
     [statements |-> <<Let("mk", Fn(<<"x">>,
                          <<Expr(Fn(<<"y">>,
                              <<Expr(Infix("+", Var("x"), Var("y")))>>))>>)),
                       Expr(Call(Call(Var("mk"), <<Num(2)>>), <<Num(3)>>))>>,
      expected |-> Integer(5)],
     \* parameters are bound by position
     [statements |-> <<Expr(Call(Fn(<<"x", "y">>,
                                    <<Expr(Infix("-", Var("x"), Var("y")))>>),
                                 <<Num(5), Num(3)>>))>>,
      expected |-> Integer(2)],
     \* a let in the body shadows, it does not overwrite
     [statements |-> <<Let("x", Num(1)),
                       Let("f", Fn(<<"x">>,
                                   <<Let("x", Infix("+", Var("x"), Num(1))),
                                     Expr(Var("x"))>>)),
                       Expr(Call(Var("f"), <<Num(5)>>)),
                       Expr(Var("x"))>>,
      expected |-> Integer(1)],
     \* a parameter does not leak to the caller
     [statements |-> <<Let("f", Fn(<<"p">>, <<Expr(Var("p"))>>)),
                       Expr(Call(Var("f"), <<Num(5)>>)),
                       Expr(Var("p"))>>,
      expected |-> RuntimeError("identifier not found: p")],
     \* a function bound after the literal that calls it was evaluated
     [statements |-> <<Let("g", Fn(<<>>, <<Expr(Call(Var("h"), <<>>))>>)),
                       Let("h", Fn(<<>>, <<Expr(Num(6))>>)),
                       Expr(Call(Var("g"), <<>>))>>,
      expected |-> Integer(6)]
  >>

\* further programs
OtherCases ==
  << \* `return if (true) { return 1 }`
     <<Ret(Carrier)>>,
     \* the empty program
     <<>>,
     \* `let f = fn() { f() }; f()`
     <<Let("f", Fn(<<>>, <<Expr(Call(Var("f"), <<>>))>>)),
       Expr(Call(Var("f"), <<>>))>>,
     \* `{[]: later}`, `{1: 1, 1: 2}`, `{"a": 1, "a": foobar}`
     <<Expr(HashLiteral(<<Member(ArrayLiteral(<<>>), Later)>>))>>,
     <<Expr(HashLiteral(<<Member(Num(1), Num(1)), Member(Num(1), Num(2))>>))>>,
     <<Expr(HashLiteral(<<Member(Text("a"), Num(1)),
                          Member(Text("a"), Foobar)>>))>>,
     \* `let a = if (true) { return 1 }; a`, `[if (true) { return 1 }]`
     <<Let("a", Carrier), Expr(Var("a"))>>,
     <<Expr(ArrayLiteral(<<Carrier>>))>>,
     \* `if (true) {}`, `puts(1)`, `fn(x) { x }()`
     <<Expr(IfThen(BooleanLiteral(TRUE), <<>>))>>,
     <<Expr(Call(Var("puts"), <<Num(1)>>))>>,
     <<Expr(Call(Fn(<<"x">>, <<Expr(Var("x"))>>), <<>>))>>,
     \* spec 8.2(6) with the hash bound first
     <<Let("h", SampleHash), Expr(Index(Var("h"), Text("two")))>>,
     \* `{1: if (true) { return 1 }}`, `fn(x) { x }(if (true) { return 1 })`
     <<Expr(HashLiteral(<<Member(Num(1), Carrier)>>))>>,
     <<Expr(Call(Fn(<<"x">>, <<Expr(Var("x"))>>), <<Carrier>>))>>
  >>

(***************************************************************************)
(* The inputs the model evaluates, each named by a tuple.                  *)
(***************************************************************************)
Inputs ==
    {<<"test", k>> : k \in 1..Len(TestCases)}
    \cup {<<"scope", k>> : k \in 1..Len(ScopeCases)}
    \cup {<<"other", k>> : k \in 1..Len(OtherCases)}
    \cup {<<"infix", l, op, r>> :
            l \in 1..Len(Operands), op \in InfixOperators,
            r \in 1..Len(Operands)}
    \cup {<<"short", s, f, g>> : s \in 1..3, f \in Forms, g \in {0} \cup Forms}
    \cup {<<"return", shape, d, caller>> :
            shape \in ReturnShapes, d \in 1..MaxNest, caller \in {"top", "fn"}}
    \cup {<<"capture", a, b>> : a \in 1..2, b \in 1..3}
    \cup {<<"count", k>> : k \in 0..MaxCount}
    \cup {<<"call", c, a>> : c \in 1..Len(Callees), a \in 1..Len(ArgumentLists)}
    \cup {<<"hashindex", k>> : k \in 1..Len(HashIndexKeys)}
    \cup {<<"program", p, q, r>> :
            p \in 0..Len(TopStatements), q \in 0..Len(TopStatements),
            r \in 0..Len(TopStatements)}
    \cup {<<"restore", b, u, caller>> :
            b \in 1..Len(RestoreBodies), u \in 1..Len(RestoreUses),
            caller \in {"top", "fn"}}
    \cup {<<"let", rhs, place>> :
            rhs \in 1..Len(LetValues), place \in {"top", "fn", "nested"}}
    \cup {<<"hash", p, q, r>> :
            p \in 1..Len(HashPairs), q \in 0..Len(HashPairs),
            r \in {0, 1, 3, 6, 11}}

ProgramOf(id) ==
    Program(
      CASE id[1] = "test" -> TestCases[id[2]].statements
        [] id[1] = "scope" -> ScopeCases[id[2]].statements
        [] id[1] = "other" -> OtherCases[id[2]]
        [] id[1] = "infix" ->
              <<Expr(Infix(id[3], Operands[id[2]], Operands[id[4]]))>>
        [] id[1] = "short" ->
              StatementForm(id[2], Form(id[3], Form(id[4], Foobar)))
        [] id[1] = "return" -> ReturnProgram(id[2], id[3], id[4])
        [] id[1] = "capture" -> CaptureProgram(id[2], id[3])
        [] id[1] = "count" -> CountProgram(id[2])
        [] id[1] = "call" ->
              <<Expr(Call(Callees[id[2]], ArgumentLists[id[3]]))>>
        [] id[1] = "hashindex" ->
              <<Expr(Index(SampleHash, HashIndexKeys[id[2]]))>>
        [] id[1] = "hash" -> HashProgram(<<id[2], id[3], id[4]>>)
        [] id[1] = "program" -> TopProgram(<<id[2], id[3], id[4]>>)
        [] id[1] = "restore" -> RestoreProgram(id[2], id[3], id[4])
        [] id[1] = "let" -> LetProgram(id[2], id[3]))

(***************************************************************************)
(* The machine.  Init is tests::test_eval (lines 469-476): an evaluator    *)
(* over Enviroment::default(), about to run eval(Node::Program).           *)
(***************************************************************************)
Init ==
    /\ input \in Inputs
    /\ stack = <<NewFrame(ProgramOf(input))>>
    /\ ret = NoValue
    /\ env = 1
    /\ envs = <<Enviroment(<<>>, 0)>>
    /\ status = "run"

Next ==
    \/ EvalProgram
    \/ EvalBlockStatement
    \/ EvalExpressionStatement
    \/ EvalReturn
    \/ EvalLet
    \/ EvalIdentifier
    \/ EvalIntegerLiteral
    \/ EvalStringLiteral
    \/ EvalBoolean
    \/ EvalFunctionLiteral
    \/ EvalExpressions
    \/ EvalArrayLiteral
    \/ EvalHashLiteral
    \/ EvalIndex
    \/ EvalPrefix
    \/ EvalInfix
    \/ EvalIf
    \/ EvalCall
    \/ ApplyFunction

Spec == Init /\ [][Next]_vars

\* eval is one sequential computation: it keeps running until it returns
FairSpec == Spec /\ WF_vars(Next)

\* the result eval returned
Result == ret

(***************************************************************************)
(* The model agrees with the repository's tests.                           *)
(***************************************************************************)
TestsPass ==
    (status = "done" /\ input[1] = "test")
        => Result = TestCases[input[2]].expected

TestsEnd == input[1] = "test" => status \in {"run", "done"}

ScopePass ==
    (status = "done" /\ input[1] = "scope")
        => Result = ScopeCases[input[2]].expected

(***************************************************************************)
(* C1.                                                                     *)
(***************************************************************************)
\* C1: the value eval(Program) returns never has kind RETURN_VALUE
C1_NoCarrierSurfaces == status = "done" => Result.kind # "RETURN_VALUE"

(***************************************************************************)
(* C2.                                                                     *)
(***************************************************************************)
\* C2: eval never raises: no evaluation ends in a panic of the host, also
\* not an integer division by 0 or a call with too few arguments
C2_NeverRaises == status # "panic"

(***************************************************************************)
(* C3.                                                                     *)
(***************************************************************************)
\* the runtime error a handed-back value carries: the value itself, or the
\* only element of the Vec eval_expressions cut short
ErrorInTransit(r) ==
    IF r.kind = "ERROR" THEN r
    ELSE IF r.kind = "<vec>" /\ Len(r.elements) = 1
            /\ r.elements[1].kind = "ERROR"
    THEN r.elements[1]
    ELSE NoValue

\* C3: once a sub-expression has reduced to a runtime error, the handler
\* that receives it evaluates nothing more and hands the same error (same
\* message) to its own caller, and so on up to the result of the program;
\* every program built from a composite form around `foobar` reduces to
\* "identifier not found: foobar", whatever follows `foobar`
C3_ShortCircuit ==
    /\ [][(status = "run" /\ ErrorInTransit(ret).kind = "ERROR")
            => /\ Len(stack') = Len(stack) - 1
               /\ ErrorInTransit(ret') = ErrorInTransit(ret)]_vars
    /\ []((status = "done" /\ input[1] = "short")
            => Result = RuntimeError("identifier not found: foobar"))

\* the left operand of an infix expression has reduced to an error and its
\* right operand is still unevaluated
C3_Witness ==
    /\ Running("Infix") /\ top.pc = 1
    /\ ret = RuntimeError("identifier not found: foobar")
    /\ top.node.right = Later

(***************************************************************************)
(* C4.                                                                     *)
(***************************************************************************)
\* the call f() of a "return" input has just reduced to ret
CallOfFReturned ==
    /\ Running("Call") /\ top.pc = 4 /\ Received
    /\ top.node.function.type = "Identifier"
    /\ top.node.function.value = "f"

\* C4: in the "return" inputs (`return 10` inside nested if-blocks of the
\* body of f, statements after it, statements after the call f()) the
\* return ends exactly the application of f: no statement of the body that
\* follows it (the literals 90..92) is evaluated, the call f() reduces to
\* Integer 10, and the statements after the call are evaluated, so that the
\* program reduces to the literal that ends the caller (7, and 8 when the
\* caller is itself a function)
C4_NestedReturn ==
    input[1] = "return" =>
        /\ ~(Running("IntegerLiteral") /\ top.node.value >= 90)
        /\ CallOfFReturned => ret = Integer(10)
        /\ status = "done"
              => Result = IF input[4] = "top" THEN Integer(7) ELSE Integer(8)

(***************************************************************************)
(* C5.                                                                     *)
(***************************************************************************)
\* apply_function has just built the callee's context and is about to
\* evaluate the body
CalleeStarts ==
    /\ status = "run" /\ Len(stack) >= 2 /\ ~Received
    /\ top.fn = "BlockStatement"
    /\ stack[Len(stack) - 1].fn = "apply_function"

Application == stack[Len(stack) - 1]

\* the names the inputs use
Names ==
    {"a", "b", "c", "f", "g", "h", "i", "n", "p", "x", "y", "mk", "two",
     "add", "identity", "newAdder", "addTwo", "myArray", "foobar", "later"}

Visible(e, name) == get(envs, e, name).kind # "<none>"

\* C5: when a function is applied, its body runs in a fresh context (a new
\* cell nothing else refers to) whose parent is the context the function
\* captured, not the caller's active one; the context binds exactly the
\* parameters, each to the argument at its position; a name visible in the
\* callee is a parameter or is visible from the captured context, whatever
\* the caller's context binds.  The scope inputs reduce to what lexical
\* scoping gives.
C5_LexicalScope ==
    /\ CalleeStarts =>
        LET func == Application.func
            args == Application.args
            parameters == func.parameters
        IN  /\ env = Len(envs)
            /\ \A e \in 1..Len(envs) : envs[e].outer # env
            /\ Application.old_env # env
            /\ envs[env].outer = func.env
            /\ DOMAIN envs[env].store =
                  {parameters[i].value : i \in 1..Len(parameters)}
            /\ \A i \in 1..Len(parameters) :
                  (\A j \in (i + 1)..Len(parameters) :
                      parameters[j].value # parameters[i].value)
                  => envs[env].store[parameters[i].value] = args[i]
            /\ \A name \in Names :
                  Visible(env, name)
                  => \/ \E i \in 1..Len(parameters) : parameters[i].value = name
                     \/ Visible(func.env, name)
    /\ (status = "done" /\ input[1] = "scope")
          => Result = ScopeCases[input[2]].expected

\* a function is applied from a context that is not the one it captured,
\* and the caller's context binds a name the callee does not see
C5_Witness ==
    /\ CalleeStarts
    /\ Application.func.env # Application.old_env
    /\ \E name \in Names :
          Visible(Application.old_env, name) /\ ~Visible(env, name)

(***************************************************************************)
(* C6.                                                                     *)
(***************************************************************************)
\* C6: a function sees the bindings written to its defining context after
\* the function literal was evaluated: `let a = v1; let f = fn() { a };
\* let a = v2; f()` reduces to v2, and a function bound to a name by the let
\* that follows its literal can call itself by that name (the counting
\* recursion reduces to 0)
C6_SharedCapture ==
    status = "done" =>
        /\ input[1] = "capture" => Result = Integer(input[3])
        /\ input[1] = "count" => Result = Integer(0)

\* `let a = 1; let f = fn() { a }; let a = 2; f()` has reduced to 2
C6_Witness ==
    status = "done" /\ input = <<"capture", 1, 2>> /\ Result = Integer(2)

InfixClaim(op, L, R, v) ==
    IF L.kind # R.kind
    THEN v = RuntimeError("type mismatch: " \o L.kind \o " " \o op \o " "
                          \o R.kind)
    ELSE IF L.kind = "INTEGER"
    THEN IF op \in {"+", "-", "*", "/"} THEN v.kind = "INTEGER"
         ELSE v.kind = "BOOLEAN"
    ELSE IF L.kind = "STRING"
    THEN IF op = "+" THEN v = Str(L.value \o R.value)
         ELSE v = RuntimeError("unknown operator: STRING " \o op \o " STRING")
    ELSE IF op = "==" THEN v = Boolean(L = R)
    ELSE IF op = "!=" THEN v = Boolean(L # R)
    ELSE v = RuntimeError("unknown operator: " \o L.kind \o " " \o op \o " "
                          \o R.kind)

\* both operands of an infix expression have reduced to values, none an
\* error
InfixApplies ==
    Running("Infix") /\ top.pc = 2 /\ Received /\ ret.kind # "ERROR"

\* C8: whenever both operands of an infix expression have reduced to
\* non-error values, the expression reduces, without a panic, to the value
\* the dispatch table gives for the operator and the operands' kinds
C8_InfixDispatch ==
    [][InfixApplies
         => /\ status' # "panic"
            /\ InfixClaim(top.node.operator, top.left, ret, ret')]_vars

(***************************************************************************)
(* C9.                                                                     *)
(***************************************************************************)
\* a Hash has been indexed by a key-eligible value
HashIndexApplies ==
    /\ Running("Index") /\ top.pc = 2 /\ Received
    /\ top.left.kind = "HASH" /\ ret.kind \in HashKeyKinds

\* C9: indexing a Hash by an Integer, Boolean or String reduces to the
\* value stored under the key, or to Null when the key is absent
C9_HashIndex ==
    [][HashIndexApplies
         => ret' = IF hash_key(ret) \in DOMAIN top.left.value
                   THEN top.left.value[hash_key(ret)]
                   ELSE Null]_vars

(***************************************************************************)
(* C10.                                                                    *)
(***************************************************************************)
\* C10: a call whose callee reduces to a non-error value of any kind and
\* whose arguments contain `foobar` reduces to the error of that first
\* failing argument, "identifier not found: foobar"
C10_ArgumentErrorFirst ==
    (status = "done" /\ input[1] = "call" /\ input[3] \in 1..4)
        => Result = RuntimeError("identifier not found: foobar")

(***************************************************************************)
(* C11.                                                                    *)
(***************************************************************************)
\* the place of a HashLiteral frame in its literal: 0 before the first key,
\* 2i-1 at the key of pair i, 2i at its value
HashPos(f) == IF f.pc = 0 THEN 0 ELSE 2 * (f.i - 1) + f.pc

\* the expressions of a hash literal in source order: key, value, key, ...
HashItem(members, p) ==
    IF p % 2 = 1 THEN members[(p + 1) \div 2].key ELSE members[p \div 2].value

\* the pairs of a "hash" input
InputPairs == HashPairsOf(<<input[2], input[3], input[4]>>)

\* the first pair of a "hash" input that stops the literal, 0 if none does
FirstFailing ==
    IF \E i \in 1..Len(InputPairs) : InputPairs[i].error # ""
    THEN CHOOSE i \in 1..Len(InputPairs) :
            /\ InputPairs[i].error # ""
            /\ \A j \in 1..(i - 1) : InputPairs[j].error = ""
    ELSE 0

\* C11: a hash literal evaluates its pairs in source order, key then value
\* then the next pair's key; a key that is not an Integer, Boolean or String
\* stops the literal with `only string, integer and boolean can be hash
\* key, found <KIND>` before the pair's value is evaluated; the Hash holds
\* one entry for each hash key, with the value of the last pair that has
\* that key; the first pair that fails gives the literal's error
C11_HashLiteral ==
    /\ [][/\ (Running("HashLiteral") /\ Len(stack') = Len(stack) + 1)
              => /\ HashPos(stack'[Len(stack)]) = HashPos(top) + 1
                 /\ stack'[Len(stack')].node =
                       HashItem(top.node.members, HashPos(top) + 1)
          /\ (Running("HashLiteral") /\ top.pc = 1
                /\ kind(ret) \notin HashKeyKinds \cup {"ERROR"})
              => /\ Len(stack') = Len(stack) - 1
                 /\ ret' = RuntimeError(
                       "only string, integer and boolean can be hash key, found "
                       \o kind(ret))]_vars
    /\ []((status = "done" /\ input[1] = "hash") =>
            IF FirstFailing # 0
            THEN Result = RuntimeError(InputPairs[FirstFailing].error)
            ELSE /\ kind(Result) = "HASH"
                 /\ DOMAIN Result.value =
                       {InputPairs[i].k : i \in 1..Len(InputPairs)}
                 /\ \A i \in 1..Len(InputPairs) :
                       (\A j \in (i + 1)..Len(InputPairs) :
                           InputPairs[j].k # InputPairs[i].k)
                       => Result.value[InputPairs[i].k] = InputPairs[i].v)

\* `{1: 10, 1: 20}` has reduced to the Hash of the one entry 1: 20
C11_Witness ==
    /\ status = "done" /\ input = <<"hash", 1, 2, 0>>
    /\ kind(Result) = "HASH"
    /\ DOMAIN Result.value = {"I:1"}
    /\ Result.value["I:1"] = Integer(20)

(***************************************************************************)
(* C12.                                                                    *)
(***************************************************************************)
\* the statements of a "program" input
InputStatements == TopStatementsOf(<<input[2], input[3], input[4]>>)

\* the first statement of a "program" input that ends in a return carrier
\* or an error, 0 if none does
FirstStopping ==
    IF \E i \in 1..Len(InputStatements) : InputStatements[i].outcome # "value"
    THEN CHOOSE i \in 1..Len(InputStatements) :
            /\ InputStatements[i].outcome # "value"
            /\ \A j \in 1..(i - 1) : InputStatements[j].outcome = "value"
    ELSE 0

\* the statements of a "program" input that are evaluated
Evaluated ==
    IF FirstStopping = 0 THEN 1..Len(InputStatements) ELSE 1..FirstStopping

\* eval_program is in control: its statement has reduced to ret, or it is
\* about to start
AtTopLevel == status = "run" /\ Len(stack) = 1 /\ top.fn = "Program"

\* C12: eval_program evaluates the top-level statements one after the other
\* in source order; the first statement that reduces to a return carrier
\* ends the program with the carrier's inner value, the first that reduces
\* to an error ends it with that error, and no later statement is started
\* and no context is changed by that step; else the program reduces to the
\* value of its last statement, to Null when it has none.  In the "program"
\* inputs the seed context ends with the bindings of the Let statements up
\* to the stopping statement only.
C12_ProgramRule ==
    /\ [][/\ (AtTopLevel /\ Len(stack') = 2)
              => /\ stack'[1].pc = (IF Received THEN top.pc + 1 ELSE 0)
                 /\ stack'[2].node = top.node.statements[stack'[1].pc + 1]
          /\ (AtTopLevel /\ kind(ret) = "RETURN_VALUE")
              => status' = "done" /\ ret' = ret.value /\ envs' = envs
          /\ (AtTopLevel /\ kind(ret) = "ERROR")
              => status' = "done" /\ ret' = ret /\ envs' = envs
          /\ (AtTopLevel /\ status' = "done"
                /\ kind(ret) \notin {"RETURN_VALUE", "ERROR"})
              => /\ top.pc + 1 >= Len(top.node.statements)
                 /\ ret' = (IF Received THEN ret ELSE Null)]_vars
    /\ []((status = "done" /\ input[1] = "program") =>
            /\ Result =
                  IF FirstStopping # 0
                  THEN InputStatements[FirstStopping].result
                  ELSE IF Len(InputStatements) = 0 THEN Null
                  ELSE InputStatements[Len(InputStatements)].result
            /\ DOMAIN envs[1].store =
                  {InputStatements[i].binds : i \in Evaluated} \ {""})

\* `let a = 1; return 5; let b = 1 + 1` has reduced to 5 and b is unbound
C12_Witness ==
    /\ status = "done" /\ input = <<"program", 1, 4, 2>>
    /\ Result = Integer(5)
    /\ DOMAIN envs[1].store = {"a"}

(***************************************************************************)
(* C13.                                                                    *)
(***************************************************************************)
\* the applications whose body is being evaluated or has just returned
InProgress ==
    {j \in 1..Len(stack) :
        stack[j].fn = "apply_function" /\ stack[j].pc = 1}

\* the nearest application in progress below frame j, 0 if there is none
Enclosing(j) ==
    IF \E i \in InProgress : i < j
    THEN CHOOSE i \in InProgress :
            i < j /\ \A k \in InProgress : k < j => k <= i
    ELSE 0

\* h is a context made for the application in frame j (0: the seed context)
ContextOf(h, j) ==
    IF j = 0 THEN h = 1
    ELSE envs[h].outer = stack[j].func.env /\ h > stack[j].old_env

\* what a "restore" input reduces to when x and w are read in the caller's
\* context (x = 1, w = 2) after f(5) has reduced to 5
RestoreExpected ==
    IF input[2] = 4 THEN RuntimeError("identifier not found: foobar")
    ELSE CASE input[3] = 1 -> Integer(3)
           [] input[3] \in {2, 3} -> Integer(8)
           [] input[3] = 4 -> Array(<<Integer(5), Integer(1), Integer(2)>>)

\* C13: the step in which apply_function returns, whatever the body reduced
\* to (a value, a return carrier, an error), makes the context saved at the
\* call the active one again, and nothing else ever changes the active
\* context or a saved one; so outside every application the active context
\* is the seed context (also when eval(Program) has returned), inside one
\* it is that application's context, and what follows a call (a statement,
\* a later argument, an operand, an array element) reads the caller's
\* bindings
C13_ContextRestored ==
    /\ [][/\ (Running("apply_function") /\ Received)
              => env' = top.old_env /\ Len(stack') = Len(stack) - 1
          /\ ~Running("apply_function") => env' = env
          /\ \A j \in 1..(Len(stack) - 1) :
                j <= Len(stack') => stack'[j] = stack[j]]_vars
    /\ [](/\ ContextOf(env, Enclosing(Len(stack) + 1))
          /\ \A j \in InProgress : ContextOf(stack[j].old_env, Enclosing(j))
          /\ status = "done" => env = 1
          /\ (status = "done" /\ input[1] = "restore")
                => Result = RestoreExpected)

\* add(f(5), x + w) in the body of h, where f returns from inside an if:
\* the second argument read h's x and w
C13_Witness ==
    /\ status = "done" /\ input = <<"restore", 3, 2, "fn">>
    /\ Result = Integer(8) /\ env = 1

(***************************************************************************)
(* C14.                                                                    *)
(***************************************************************************)
\* the right-hand side of a Let has reduced to ret
LetReceives == Running("Let") /\ Received

\* what a "let" input reduces to, and the x of the seed context at the end
LetExpected ==
    CASE input[2] = 3 -> RuntimeError("identifier not found: foobar")
      [] input[3] = "top" -> IF input[2] = 1 THEN Integer(7) ELSE Integer(2)
      [] input[3] = "fn" -> IF input[2] = 1 THEN Integer(7) ELSE Integer(2)
      [] input[3] = "nested" -> IF input[2] = 1 THEN Integer(10) ELSE Integer(7)

LetSeedX ==
    IF input[3] = "top" /\ input[2] # 3 THEN LetExpected ELSE Integer(1)

\* C14: the step in which a Let receives the value of its right-hand side
\* changes no context when the value is an error; otherwise it binds the
\* Let's name to that value in the active context and changes nothing else:
\* not another name there, not the parent of that context, not any other
\* context; in both cases the Let reduces to the value received.  No other
\* step changes a context that exists.  So `let x = ...` in a function body
\* leaves the x of the enclosing contexts as it was.
C14_LetFrame ==
    /\ [][/\ (LetReceives /\ kind(ret) = "ERROR")
              => envs' = envs /\ ret' = ret
          /\ (LetReceives /\ kind(ret) # "ERROR")
              => LET name == top.node.name.value
                 IN  /\ Len(envs') = Len(envs)
                     /\ \A h \in 1..Len(envs) : h # env => envs'[h] = envs[h]
                     /\ envs'[env].outer = envs[env].outer
                     /\ DOMAIN envs'[env].store =
                           DOMAIN envs[env].store \cup {name}
                     /\ envs'[env].store[name] = ret
                     /\ \A n \in DOMAIN envs[env].store \ {name} :
                           envs'[env].store[n] = envs[env].store[n]
                     /\ ret' = ret
                     /\ env' = env
          /\ ~LetReceives
              => \A h \in 1..Len(envs) : envs'[h] = envs[h]]_vars
    /\ []((status = "done" /\ input[1] = "let") =>
            /\ Result = LetExpected
            /\ envs[1].store["x"] = LetSeedX
            /\ envs[1].store["y"] = Integer(2))

\* `let x = x + 1` in the body of g, called in the body of f after its
\* `let x = 3`: g's x is 4, f's x is still 3 (4 + 3), the seed's still 1
C14_Witness ==
    /\ status = "done" /\ input = <<"let", 2, "nested">>
    /\ Result = Integer(7)
    /\ envs[1].store["x"] = Integer(1)

(***************************************************************************)
(* C15.                                                                    *)
(***************************************************************************)
\* a return carrier is an element of the Array or an entry of the Hash v
HoldsCarrier(v) ==
    \/ /\ kind(v) = "ARRAY"
       /\ \E i \in 1..Len(v.elements) : kind(v.elements[i]) = "RETURN_VALUE"
    \/ /\ kind(v) = "HASH"
       /\ \E k \in DOMAIN v.value : kind(v.value[k]) = "RETURN_VALUE"

\* C15: no context binds a name (a let's name, a function's parameter) to a
\* return carrier, and no Array or Hash that a literal reduced to holds
\* one
C15_CarriersInTransit ==
    /\ \A h \in 1..Len(envs) : \A n \in DOMAIN envs[h].store :
          kind(envs[h].store[n]) # "RETURN_VALUE"
    /\ ~HoldsCarrier(ret)


=============================================================================
